---- MODULE Spec2Model ----
(***************************************************************************)
(* A model of linak_controller/main.py: the session supervisor (main,      *)
(* manage), the connection supervisor (connect, disconnect,                *)
(* disconnect_callback), the command executor (run_command), the two       *)
(* forwarding servers and the forwarding client.                           *)
(*                                                                         *)
(* Every action is the code between two awaits of one coroutine: asyncio   *)
(* runs one coroutine at a time and switches only at an await, so the      *)
(* synchronous code after an await belongs to the step that completes it.  *)
(***************************************************************************)
EXTENDS Integers, Sequences, FiniteSets, TLC

(* ------------------------------ bounds --------------------------------- *)

\* sessions main() starts before the model stops restarting (forever mode)
MaxSessions == 2
\* inbound connections a forwarding server accepts
MaxRequests == 2
\* unexpected drops of the link the transport reports
MaxDrops == 1

(* --------------------------- value domains ----------------------------- *)

\* "no client": the value of `client = None`
None == 0
\* "no height": a height variable not assigned yet (`target = None`)
NoHeight == -1

\* config.Commands, and None for status
Commands == {"none", "move_to", "watch", "scan_adapter", "server", "tcp_server"}

ALLOWED_KEYS == {"command", "move_to", "quiet"}

ALLOWED_COMMANDS == {"none", "move_to", "watch"}

\* config.favourites: name -> height in mm. "70" is a favourite whose name
\* is also a decimal number.
favourites == [n \in {"standing", "70"} |-> 110]

\* The move-to target strings of the model. "None" is str(None), the value
\* of config.move_to when no target was given.
Targets == {"standing", "70", "110", "62", "half", "abc", "None"}

\* str.isnumeric(): "half" stands for a string such as U+00BD (one half),
\* which isnumeric() accepts and int() rejects.
isnumeric(s) == s \in {"70", "110", "62", "half"}

\* int(s): a record [ok, value]; ok is FALSE where int() raises ValueError.
int(s) ==
    CASE s = "70" -> [ok |-> TRUE, value |-> 70]
      [] s = "110" -> [ok |-> TRUE, value |-> 110]
      [] s = "62" -> [ok |-> TRUE, value |-> 62]
      [] OTHER -> [ok |-> FALSE, value |-> NoHeight]

\* Height(h, True).value: millimetres to device units (tenths of a mm)
HeightToInternal(h) == h * 10

\* the positions the desk can be in when a session starts, in device units
DeskHeights == {HeightToInternal(62), HeightToInternal(110)}

Runners == 0 .. MaxRequests
Requests == 1 .. MaxRequests

(* ------------------------------- state --------------------------------- *)

VARIABLES
    config,        \* the process-wide Configuration (config.*)
    pc,            \* where main()/manage() is
    client,        \* manage's local `client`: a handle or None
    connecting,    \* connect()'s local `client` while manage awaits connect()
    handles,       \* BleakClient objects constructed so far
    connected,     \* the handles whose is_connected is True
    tasks,         \* pending asyncio tasks connect(client): their argument
    height,        \* the desk's position, device units
    run,           \* the run_command invocations: 0 local, r >= 1 request r
    server,        \* "none", "ws" or "tcp": the server this session runs
    accepted,      \* inbound connections accepted by the server
    forwarded,     \* forward_command's forwarded_config, as a sequence
    sent,          \* descriptors the forwarding client has sent
    clientConns,   \* connections the forwarding client has opened
    sessions,      \* manage() calls so far
    return_code,   \* main's return_code: -1 before the first return
    why,           \* how the last session ended
    drops,         \* unexpected drops so far
    lastCallback,  \* the last disconnect_callback invocation
    deliberate,    \* a transport-level disconnect was requested by disconnect()
    cleanupOps     \* the cleanup calls of this session, in order

vars == <<config, pc, client, connecting, handles, connected, tasks, height,
          run, server, accepted, forwarded, sent, clientConns, sessions,
          return_code, why, drops, lastCallback, deliberate, cleanupOps>>

connVars == <<handles, connected, tasks, lastCallback, deliberate, drops>>
fwdVars == <<forwarded, sent, clientConns>>
srvVars == <<server, accepted>>

\* A run_command invocation: where it is, initial_height and target (device
\* units), the device operations it has issued, the config.command and
\* config.move_to it branched on, and for a handler the descriptor it applied.
IdleRun == [pc |-> "idle", initial |-> NoHeight, target |-> NoHeight,
            ops |-> <<>>, command |-> "", move_to |-> "", desc |-> <<>>]


NoCallback == [client |-> None, flag |-> FALSE, cause |-> "none",
               scheduled |-> <<>>]

\* The configurations a process can start with. config.disconnecting is
\* False and config.log is print (0) at startup; move_to is given only with
\* the move_to command.
StartConfigs ==
    { [command |-> c, move_to |-> t, quiet |-> FALSE, forever |-> f,
       forward |-> w, disconnecting |-> FALSE, server_address |-> "localhost",
       log |-> 0] :
        c \in Commands, t \in Targets, f \in BOOLEAN, w \in BOOLEAN }

Init ==
    /\ config \in { c \in StartConfigs :
                       /\ (c.command = "move_to") = (c.move_to # "None")
                       /\ c.forward => c.command \in {"none", "move_to", "scan_adapter"} }
    /\ pc = "main"
    /\ client = None
    /\ connecting = None
    /\ handles = 0
    /\ connected = {}
    /\ tasks = <<>>
    /\ height \in DeskHeights
    /\ run = [r \in Runners |-> IdleRun]
    /\ server = "none"
    /\ accepted = 0
    /\ forwarded = <<>>
    /\ sent = <<>>
    /\ clientConns = 0
    /\ sessions = 0
    /\ return_code = -1
    /\ why = "none"
    /\ drops = 0
    /\ lastCallback = NoCallback
    /\ deliberate = FALSE
    /\ cleanupOps = <<>>

(* --------------------- connection supervisor --------------------------- *)

\* disconnect_callback(client): the tasks after the callback ran. The
\* variant calls connect() without the handle, which then constructs one.
disconnect_callback_NoClient(cfg, c, ts) ==
    IF ~cfg.disconnecting THEN Append(ts, None) ELSE ts
disconnect_callback(cfg, c, ts) ==
    IF ~cfg.disconnecting THEN Append(ts, c) ELSE ts

\* connect(): `if not client: client = BleakClient(...)`. The handle
\* connect() works on, given its argument and the handles constructed so far.
connect_client(c, n) == IF c = None THEN n + 1 ELSE c
connect_handles(c, n) == IF c = None THEN n + 1 ELSE n

\* disconnect(): `if client.is_connected:` decides whether anything is done
disconnect_guard_Always(c, conn) == TRUE
disconnect_guard(c, conn) == c \in conn

\* disconnect(): config.disconnecting as `config.disconnecting = True`
\* leaves it, before client.disconnect() is awaited
disconnect_flag_Unset(cfg) == cfg.disconnecting
disconnect_flag(cfg) == TRUE

Callback(c, cause) ==
    /\ tasks' = disconnect_callback(config, c, tasks)
    /\ lastCallback' = [client |-> c, flag |-> config.disconnecting,
                        cause |-> cause,
                        scheduled |-> SubSeq(tasks', Len(tasks) + 1, Len(tasks'))]

Alive == pc \notin {"exited", "crashed"}

\* The transport loses the link of a connected handle and invokes the
\* disconnected callback.
Drop ==
    /\ Alive
    /\ drops < MaxDrops
    /\ \E h \in connected :
        /\ connected' = connected \ {h}
        /\ Callback(h, "unexpected")
    /\ drops' = drops + 1
    /\ UNCHANGED <<config, pc, client, connecting, handles, height, run,
                   srvVars, fwdVars, sessions, return_code, why, deliberate,
                   cleanupOps>>

RemoveAt(s, i) == SubSeq(s, 1, i - 1) \o SubSeq(s, i + 1, Len(s))

\* A background task connect(client) runs to its end: client.connect and
\* Desk.initialise succeed, or one of them raises and the task dies with an
\* exception nobody retrieves.
Reconnect ==
    /\ Alive
    /\ \E i \in 1 .. Len(tasks) : \E ok \in BOOLEAN :
        /\ handles' = connect_handles(tasks[i], handles)
        /\ connected' = IF ok THEN connected \cup {connect_client(tasks[i], handles)}
                        ELSE connected
        /\ tasks' = RemoveAt(tasks, i)
    /\ UNCHANGED <<config, pc, client, connecting, height, run, srvVars,
                   fwdVars, sessions, return_code, why, drops, lastCallback,
                   deliberate, cleanupOps>>

(* ------------------------- session supervisor -------------------------- *)

\* the value of the return statement manage() left by; the variant returns
\* 0 from the `except OSError` clause
ReturnValue_OSErrorZero(w) ==
    IF w \in {"ok", "scan", "forward", "refused", "OSError"} THEN 0 ELSE 1
ReturnValue(w) == IF w \in {"ok", "scan", "forward", "refused"} THEN 0 ELSE 1

\* forward_command(): forwarded_config
ForwardDescriptor(cfg) == [k \in ALLOWED_KEYS \cap DOMAIN cfg |-> cfg[k]]

\* forward_command(): `if config.command not in ALLOWED_COMMANDS: return`
forward_refused_Never(cfg) == FALSE
forward_refused(cfg) == cfg.command \notin ALLOWED_COMMANDS

\* main(): `return_code = await manage()`, up to manage's first await.
ManageStart ==
    /\ pc = "main"
    /\ sessions < MaxSessions
    /\ sessions' = sessions + 1
    /\ client' = None
    /\ cleanupOps' = <<>>
    /\ run' = [r \in Runners |-> IdleRun]
    /\ server' = "none"
    /\ accepted' = 0
    /\ IF config.forward
       THEN /\ IF forward_refused(config)
               THEN /\ pc' = "returned"
                    /\ why' = "refused"
                    /\ return_code' = ReturnValue("refused")
                    /\ forwarded' = <<>>
               ELSE /\ pc' = "ws_connect"
                    /\ forwarded' = <<ForwardDescriptor(config)>>
                    /\ UNCHANGED <<why, return_code>>
            /\ UNCHANGED <<handles, connecting>>
       ELSE IF config.command = "scan_adapter"
       THEN /\ pc' = "scan"
            /\ UNCHANGED <<handles, connecting, forwarded, why, return_code>>
       ELSE /\ pc' = "connecting"
            /\ handles' = connect_handles(None, handles)
            /\ connecting' = connect_client(None, handles)
            /\ UNCHANGED <<forwarded, why, return_code>>
    /\ UNCHANGED <<config, connected, tasks, height, sent, clientConns, drops,
                   lastCallback, deliberate>>

\* scan(): BleakScanner().discover returns, or raises
Scan ==
    /\ pc = "scan"
    /\ \E o \in {"scan", "OSError", "Exception"} :
        /\ why' = o
        /\ return_code' = ReturnValue(o)
    /\ pc' = "returned"
    /\ UNCHANGED <<config, client, connecting, connVars, height, run, srvVars,
                   fwdVars, sessions, cleanupOps>>

\* forward_command(): session.ws_connect returns and the descriptor is sent,
\* or it raises (an OSError: connection refused)
ForwardConnect ==
    /\ pc = "ws_connect"
    /\ \/ /\ clientConns' = clientConns + 1
          /\ sent' = Append(sent, forwarded[1])
          /\ pc' = "receiving"
          /\ UNCHANGED <<why, return_code>>
       \/ /\ why' = "OSError"
          /\ return_code' = ReturnValue("OSError")
          /\ pc' = "returned"
          /\ UNCHANGED <<sent, clientConns>>
    /\ UNCHANGED <<config, client, connecting, connVars, height, run, srvVars,
                   forwarded, sessions, cleanupOps>>

\* forward_command(): the receive loop ends on a closed or error message
ForwardReceive ==
    /\ pc = "receiving"
    /\ why' = "forward"
    /\ return_code' = ReturnValue("forward")
    /\ pc' = "returned"
    /\ UNCHANGED <<config, client, connecting, connVars, height, run, srvVars,
                   fwdVars, sessions, cleanupOps>>

\* connect(): `await client.connect(timeout=...)` returns or raises; manage
\* catches what it raises, and its `client` is still None in the finally.
ConnectResult ==
    /\ pc = "connecting"
    /\ \/ /\ connected' = connected \cup {connecting}
          /\ pc' = "initialise"
          /\ UNCHANGED <<why, return_code, connecting>>
       \/ \E o \in {"ConnectNotFound", "BleakError", "ConnectTimeout", "OSError"} :
          /\ why' = o
          /\ return_code' = ReturnValue(o)
          /\ pc' = "returned"
          /\ connecting' = None
          /\ UNCHANGED connected
    /\ UNCHANGED <<config, client, handles, tasks, height, run, srvVars,
                   fwdVars, sessions, drops, lastCallback, deliberate,
                   cleanupOps>>

\* connect(): `await Desk.initialise(client)`, then manage dispatches on
\* config.command up to the next await. The handshake raises on a link
\* that dropped meanwhile, and can raise on a live one; manage catches the
\* BleakError with its `client` still None.
Initialise ==
    /\ pc = "initialise"
    /\ connecting' = None
    /\ \/ /\ connecting \in connected
          /\ client' = connecting
          /\ IF config.command \in {"server", "tcp_server"}
             THEN /\ pc' = "server_start"
                  /\ server' = IF config.command = "server" THEN "ws" ELSE "tcp"
                  /\ UNCHANGED run
             ELSE /\ pc' = "run"
                  /\ run' = [run EXCEPT ![0].pc = "read1"]
                  /\ UNCHANGED server
          /\ UNCHANGED <<why, return_code>>
       \/ /\ why' = "InitialiseError"
          /\ return_code' = ReturnValue("InitialiseError")
          /\ pc' = "returned"
          /\ UNCHANGED <<client, run, server>>
    /\ UNCHANGED <<config, connVars, height, accepted, fwdVars, sessions,
                   cleanupOps>>

\* run_server / run_tcp_server: the listener starts, or raises OSError
ServerStart ==
    /\ pc = "server_start"
    /\ \/ /\ pc' = "serving"
          /\ UNCHANGED why
       \/ /\ pc' = "stop"
          /\ why' = "OSError"
    /\ UNCHANGED <<config, client, connecting, connVars, height, run, srvVars,
                   fwdVars, sessions, return_code, cleanupOps>>

\* manage(), finally: `await Desk.stop(client)`. On a dropped link the
\* device call returns (the error is swallowed) or raises; what it raises
\* leaves manage() and main().
Stop ==
    /\ pc = "stop"
    /\ cleanupOps' = Append(cleanupOps, "stop")
    /\ \/ pc' = "disconnect"
       \/ /\ client \notin connected
          /\ pc' = "crashed"
    /\ UNCHANGED <<config, client, connecting, connVars, height, run, srvVars,
                   fwdVars, sessions, return_code, why>>

\* disconnect(), up to `await client.disconnect()`
Disconnect ==
    /\ pc = "disconnect"
    /\ cleanupOps' = Append(cleanupOps, "disconnect")
    /\ IF disconnect_guard(client, connected)
       THEN /\ config' = [config EXCEPT !.disconnecting = disconnect_flag(config)]
            /\ pc' = "transport_disconnect"
            /\ deliberate' = TRUE
            /\ UNCHANGED return_code
       ELSE /\ pc' = "returned"
            /\ return_code' = ReturnValue(why)
            /\ UNCHANGED <<config, deliberate>>
    /\ UNCHANGED <<client, connecting, handles, connected, tasks, height, run,
                   srvVars, fwdVars, sessions, why, drops, lastCallback>>

\* disconnect(): `await client.disconnect()` completes: the transport closes
\* the link, invokes the disconnected callback, and manage() returns.
TransportDisconnect ==
    /\ pc = "transport_disconnect"
    /\ IF client \in connected
       THEN /\ connected' = connected \ {client}
            /\ Callback(client, "deliberate")
       ELSE UNCHANGED <<connected, tasks, lastCallback>>
    /\ pc' = "returned"
    /\ return_code' = ReturnValue(why)
    /\ UNCHANGED <<config, client, connecting, handles, height, run, srvVars,
                   fwdVars, sessions, why, drops, deliberate, cleanupOps>>

\* main(): `while config.forever:` and `os._exit(return_code)`; the variant
\* is main() looping whatever config.forever says.
MainLoop_NoExit ==
    /\ pc = "returned"
    /\ pc' = "main"
    /\ UNCHANGED <<config, client, connecting, connVars, height, run, srvVars,
                   fwdVars, sessions, return_code, why, cleanupOps>>
MainLoop ==
    /\ pc = "returned"
    /\ pc' = IF config.forever THEN "main" ELSE "exited"
    /\ UNCHANGED <<config, client, connecting, connVars, height, run, srvVars,
                   fwdVars, sessions, return_code, why, cleanupOps>>

(* --------------------------- command executor ------------------------- *)

\* run_command(): the move_to target. kind is "ok" (a Height was built),
\* "invalid" (config.error and return) or "ValueError" (int() raised).
ResolveTarget_NoReturn(t) ==
    IF t \in DOMAIN favourites
    THEN [kind |-> "ok", value |-> HeightToInternal(favourites[t])]
    ELSE IF isnumeric(t) /\ int(t).ok
    THEN [kind |-> "ok", value |-> HeightToInternal(int(t).value)]
    ELSE [kind |-> "ValueError", value |-> NoHeight]
ResolveTarget(t) ==
    IF t \in DOMAIN favourites
    THEN [kind |-> "ok", value |-> HeightToInternal(favourites[t])]
    ELSE IF isnumeric(t)
    THEN IF int(t).ok
         THEN [kind |-> "ok", value |-> HeightToInternal(int(t).value)]
         ELSE [kind |-> "ValueError", value |-> NoHeight]
    ELSE [kind |-> "invalid", value |-> NoHeight]

\* run_command(): `if target.value == initial_height.value:`
NothingToDo_Never(t, initial) == FALSE
NothingToDo(t, initial) == t = initial

Op(name, arg) == [op |-> name, arg |-> arg]

\* Where a handler is after its run_command ended: the socket handler has
\* closed the writer, the message handler has left its loop by `break` and
\* sleeps; a handler whose run_command raised is dropped by the server.
AfterRun(how) ==
    IF how # "ok" THEN "failed" ELSE IF server = "tcp" THEN "closed" ELSE "sleep"

\* run_command() of runner r ends, returning (how = "ok") or raising, and
\* its caller goes on to its next await: manage() to the finally, the socket
\* handler to writer.close(), the message handler to its sleep. A handler
\* that raises is dropped by the server. The record of the local run is
\* kept to the end of the session; a handler's frame is gone.
Finish(r, rec, how) ==
    /\ run' = [run EXCEPT ![r] =
                 IF r = 0
                 THEN [rec EXCEPT !.pc = IF how = "ok" THEN "returned" ELSE "raised"]
                 ELSE [IdleRun EXCEPT !.pc = AfterRun(how)]]
    /\ IF r = 0
       THEN pc' = "stop" /\ why' = how
       ELSE UNCHANGED <<pc, why>>

Running(r) == IF r = 0 THEN pc = "run" ELSE pc = "serving"

DeviceErrors == {"OSError", "Exception"}

\* `initial_height, _ = await Desk.get_height_speed(client)` completes and
\* run_command goes on to its next await or to its end.
RunRead1(r) ==
    /\ Running(r)
    /\ run[r].pc = "read1"
    /\ IF client \in connected
       THEN LET rec == [run[r] EXCEPT !.initial = height,
                                      !.ops = <<Op("read", height)>>,
                                      !.command = config.command,
                                      !.move_to = config.move_to,
                                      !.desc = <<>>]
                res == ResolveTarget(config.move_to)
            IN  IF config.command = "watch"
                THEN /\ run' = [run EXCEPT ![r] =
                                  [rec EXCEPT !.pc = "watch",
                                              !.ops = Append(@, Op("watch", NoHeight))]]
                     /\ UNCHANGED <<pc, why>>
                ELSE IF config.command = "move_to"
                THEN IF res.kind = "invalid"
                     THEN Finish(r, rec, "ok")
                     ELSE IF res.kind = "ValueError"
                     THEN Finish(r, rec, "Exception")
                     ELSE IF NothingToDo(res.value, height)
                     THEN Finish(r, [rec EXCEPT !.target = res.value], "ok")
                     ELSE /\ run' = [run EXCEPT ![r] =
                                       [rec EXCEPT !.pc = "move",
                                                   !.target = res.value]]
                          /\ UNCHANGED <<pc, why>>
                ELSE Finish(r, rec, "ok")
       ELSE \E e \in DeviceErrors : Finish(r, run[r], e)
    /\ UNCHANGED <<config, client, connecting, connVars, height, srvVars,
                   fwdVars, sessions, return_code, cleanupOps>>

\* `await Desk.move_to(client, target)` completes
RunMoveTo(r) ==
    /\ Running(r)
    /\ run[r].pc = "move"
    /\ IF client \in connected
       THEN /\ run' = [run EXCEPT ![r].pc = "read2",
                                  ![r].ops = Append(@, Op("move_to", run[r].target))]
            /\ height' = run[r].target
            /\ UNCHANGED <<pc, why>>
       ELSE /\ \E e \in DeviceErrors : Finish(r, run[r], e)
            /\ UNCHANGED height
    /\ UNCHANGED <<config, client, connecting, connVars, srvVars, fwdVars,
                   sessions, return_code, cleanupOps>>

\* `final_height, _ = await Desk.get_height_speed(client)` completes; the
\* variant is run_command returning after the move without the final read.
RunRead2_NoFinalRead(r) ==
    /\ Running(r)
    /\ run[r].pc = "read2"
    /\ Finish(r, run[r], "ok")
    /\ UNCHANGED <<config, client, connecting, connVars, height, srvVars,
                   fwdVars, sessions, return_code, cleanupOps>>
RunRead2(r) ==
    /\ Running(r)
    /\ run[r].pc = "read2"
    /\ IF client \in connected
       THEN Finish(r, [run[r] EXCEPT !.ops = Append(@, Op("read", height))], "ok")
       ELSE \E e \in DeviceErrors : Finish(r, run[r], e)
    /\ UNCHANGED <<config, client, connecting, connVars, height, srvVars,
                   fwdVars, sessions, return_code, cleanupOps>>

\* `await Desk.watch_height_speed(client)` returns. Desk is a collaborator
\* outside main.py; by its contract the stream ends when the link is lost.
RunWatchEnd(r) ==
    /\ Running(r)
    /\ run[r].pc = "watch"
    /\ client \notin connected
    /\ Finish(r, run[r], "ok")
    /\ UNCHANGED <<config, client, connecting, connVars, height, srvVars,
                   fwdVars, sessions, return_code, cleanupOps>>

(* --------------------------- forwarding servers ------------------------ *)

\* The descriptors a caller sends: any JSON object, allow-listed or not.
Descriptors ==
    { [command |-> "move_to", move_to |-> "standing"],
      [command |-> "move_to", move_to |-> "abc", quiet |-> TRUE],
      [command |-> "watch"],
      [command |-> "scan_adapter"],
      [forever |-> TRUE, disconnecting |-> TRUE, server_address |-> "0.0.0.0"] }

\* `for key in forwarded_config: setattr(config, key, forwarded_config[key])`
ApplyDescriptor(cfg, d) ==
    [k \in DOMAIN cfg |-> IF k \in DOMAIN d THEN d[k] ELSE cfg[k]]

\* The server accepts an inbound connection and starts its handler, up to
\* the handler's first await. The message handler installs its log sink.
Accept(r) ==
    /\ pc = "serving"
    /\ r = accepted + 1
    /\ accepted' = r
    /\ run' = [run EXCEPT ![r].pc = "receiving"]
    /\ config' = IF server = "ws" THEN [config EXCEPT !.log = r] ELSE config
    /\ UNCHANGED <<pc, client, connecting, connVars, height, server, fwdVars,
                   sessions, return_code, why, cleanupOps>>

\* The handler has read the descriptor: it applies it and calls
\* run_command, which runs up to its first await.
Receive(r) ==
    /\ pc = "serving"
    /\ run[r].pc = "receiving"
    /\ \E d \in Descriptors :
        /\ config' = ApplyDescriptor(config, d)
        /\ run' = [run EXCEPT ![r].pc = "read1", ![r].desc = <<d>>]
    /\ UNCHANGED <<pc, client, connecting, connVars, height, srvVars, fwdVars,
                   sessions, return_code, why, cleanupOps>>

\* The message handler got a message that is no text frame: `break`
ReceiveOther(r) ==
    /\ pc = "serving"
    /\ server = "ws"
    /\ run[r].pc = "receiving"
    /\ run' = [run EXCEPT ![r].pc = "sleep"]
    /\ UNCHANGED <<config, pc, client, connecting, connVars, height, srvVars,
                   fwdVars, sessions, return_code, why, cleanupOps>>

\* The message handler: `await asyncio.sleep(1)` is over, `await ws.close()`
Close(r) ==
    /\ pc = "serving"
    /\ run[r].pc = "sleep"
    /\ run' = [run EXCEPT ![r].pc = "closed"]
    /\ UNCHANGED <<config, pc, client, connecting, connVars, height, srvVars,
                   fwdVars, sessions, return_code, why, cleanupOps>>

(* ---------------------------- specification ---------------------------- *)

\* a session that runs a command itself, scans or forwards
NextLocal ==
    \/ ManageStart
    \/ Scan
    \/ ForwardConnect
    \/ ForwardReceive
    \/ ConnectResult
    \/ Initialise
    \/ Stop
    \/ Disconnect
    \/ TransportDisconnect
    \/ MainLoop
    \/ Drop
    \/ Reconnect
    \/ RunRead1(0)
    \/ RunMoveTo(0)
    \/ RunRead2(0)
    \/ RunWatchEnd(0)

\* a session that runs one of the forwarding servers
NextServer ==
    \/ ServerStart
    \/ \E r \in Requests : Accept(r)
    \/ \E r \in Requests : Receive(r)
    \/ \E r \in Requests : ReceiveOther(r)
    \/ \E r \in Requests : Close(r)
    \/ \E r \in Requests : RunRead1(r)
    \/ \E r \in Requests : RunMoveTo(r)
    \/ \E r \in Requests : RunRead2(r)
    \/ \E r \in Requests : RunWatchEnd(r)

Next == NextLocal \/ NextServer

\* the whole program, started with any command
Spec == Init /\ [][Next]_vars

\* the program started with a command other than the two servers
InitLocal == Init /\ config.command \notin {"server", "tcp_server"}
SpecLocal == InitLocal /\ [][NextLocal]_vars

\* The steps of the main coroutine of a session that runs a command: the
\* scheduler resumes it whenever the call it awaits has returned or raised.
\* The watch stream, the scan and the remote end of a forwarding are left
\* out: nothing makes them end.
SessionStep ==
    \/ ManageStart
    \/ ConnectResult
    \/ Initialise
    \/ RunRead1(0)
    \/ RunMoveTo(0)
    \/ RunRead2(0)
    \/ Stop
    \/ Disconnect
    \/ TransportDisconnect
    \/ MainLoop

\* SpecLocal with every awaited device and transport call of the main
\* coroutine completing
SpecLocalFair == SpecLocal /\ WF_vars(SessionStep)

(* ----------------------------- properties ------------------------------ *)

\* the step in which a forwarding server applies a descriptor
AppliesDescriptor(r) == run[r].pc = "receiving" /\ run'[r].pc = "read1"

\* C1: applying a forwarded descriptor leaves every Configuration field
\* other than command, move_to and quiet as it was, also when the descriptor
\* holds other keys.
C1_DescriptorFrame ==
    [][\A r \in Requests :
          AppliesDescriptor(r) =>
              \A k \in DOMAIN config \ {"command", "move_to", "quiet"} :
                  config'[k] = config[k]]_vars

\* C2: after a forwarding server applied a descriptor that selects a
\* command, the selected command is one of none, move_to and watch.
C2_OnlyRemoteCommands ==
    [][\A r \in Requests :
          (AppliesDescriptor(r) /\ "command" \in DOMAIN run'[r].desc[1]) =>
              config'.command \in {"none", "move_to", "watch"}]_vars

\* C3: the callback the transport invokes for a drop that disconnect()
\* requested finds the disconnecting flag set and schedules no reconnect.
C3_DeliberateDisconnectNoReconnect ==
    lastCallback.cause = "deliberate" =>
        lastCallback.flag /\ lastCallback.scheduled = <<>>

C3_Witness ==
    /\ lastCallback.cause = "deliberate"
    /\ pc = "returned"
    /\ cleanupOps = <<"stop", "disconnect">>

\* C4: a callback invocation with the flag unset schedules exactly one
\* reconnect task, for the handle that dropped, and one with the flag set
\* schedules none; no reconnect constructs a handle, so every handle was
\* constructed by a session's own connect.
C4_OneReconnectSameHandle ==
    /\ lastCallback.cause # "none" =>
          lastCallback.scheduled =
              IF lastCallback.flag THEN <<>> ELSE <<lastCallback.client>>
    /\ \A i \in 1 .. Len(tasks) : tasks[i] \in 1 .. handles
    /\ handles <= sessions

C4_Witness ==
    /\ lastCallback.cause = "unexpected"
    /\ ~lastCallback.flag
    /\ drops = 1
    /\ tasks = <<>>
    /\ lastCallback.client \in connected

\* C5: after a successful connect that follows a deliberate disconnect the
\* disconnecting flag is not set, and an unexpected loss schedules a
\* reconnect.
C5_FlagClearedByNextConnection ==
    /\ (deliberate /\ pc = "run") => ~config.disconnecting
    /\ (deliberate /\ pc = "run" /\ lastCallback.cause = "unexpected"
           /\ lastCallback.client = client) =>
          lastCallback.scheduled # <<>>

\* C6: disconnect() on a handle that is not connected requests no
\* transport-level disconnect and changes neither the flag nor the
\* connection; right after a disconnect that was carried out the handle is
\* not connected, so a second call is that case.
C6_DisconnectIdempotent ==
    [][/\ (pc = "disconnect" /\ pc' # "disconnect" /\ client \notin connected) =>
            /\ pc' = "returned"
            /\ config' = config
            /\ <<connected, tasks, deliberate, lastCallback>>' =
                   <<connected, tasks, deliberate, lastCallback>>
       /\ (pc = "transport_disconnect" /\ pc' # "transport_disconnect") =>
            client \notin connected']_vars

C6_Witness ==
    /\ sessions = 1
    /\ pc = "returned"
    /\ cleanupOps = <<"stop", "disconnect">>
    /\ ~deliberate
    /\ ~config.disconnecting

\* C7: a move_to run whose resolved target equals the height it read first
\* issues no move_to and reads the height once.
C7_NoWriteWhenAtTarget ==
    \A r \in Runners :
        (/\ run[r].command = "move_to"
         /\ run[r].target # NoHeight
         /\ run[r].target = run[r].initial) =>
            /\ run[r].pc = "returned"
            /\ run[r].ops = <<Op("read", run[r].initial)>>

C7_Witness ==
    /\ run[0].pc = "returned"
    /\ run[0].command = "move_to"
    /\ run[0].target # NoHeight
    /\ run[0].target = run[0].initial
    /\ pc = "exited"

\* C8: a move_to run whose target string is neither a favourite nor numeric
\* issues no move_to, subscribes to no watch stream and returns without
\* raising: manage() leaves by `return 0`, and a session whose cleanup
\* completes ends with status 0.
C8_InvalidTargetHandledLocally ==
    \A r \in Runners :
        (run[r].command = "move_to" /\ run[r].move_to \in {"abc", "None"}) =>
            /\ run[r].pc = "returned"
            /\ run[r].ops = <<Op("read", run[r].initial)>>
            /\ run[r].target = NoHeight
            /\ why = "ok"
            /\ pc \in {"returned", "exited"} => return_code = 0

C8_Witness ==
    /\ run[0].pc = "returned"
    /\ run[0].command = "move_to"
    /\ run[0].move_to = "abc"
    /\ pc = "exited"
    /\ return_code = 0

\* C9: the forwarding client opens no connection and sends nothing when the
\* selected command is not none, move_to or watch; a descriptor it builds or
\* sends holds only the keys command, move_to and quiet, with the values of
\* the Configuration.
C9_ClientRefusesAndFilters ==
    /\ (config.forward /\ config.command \notin {"none", "move_to", "watch"}) =>
          (clientConns = 0 /\ sent = <<>> /\ forwarded = <<>>
           /\ pc \notin {"ws_connect", "receiving"})
    /\ \A d \in {forwarded[i] : i \in 1 .. Len(forwarded)} \cup
                {sent[i] : i \in 1 .. Len(sent)} :
          /\ DOMAIN d \subseteq {"command", "move_to", "quiet"}
          /\ \A k \in DOMAIN d : d[k] = config[k]

C9_Witness ==
    /\ config.forward
    /\ config.command = "scan_adapter"
    /\ why = "refused"
    /\ pc = "exited"
    /\ clientConns = 0

\* C10: in forever mode the process never stops: whatever the outcome of a
\* session, main() goes on to the next one.
C10_ForeverAlwaysRestarts ==
    config.forever => pc \notin {"crashed", "exited"}

\* The session set out to connect: it neither scans nor forwards.
SessionConnects == ~config.forward /\ config.command # "scan_adapter"

\* The session ended on a failure of client.connect itself: its handle was
\* never in the connected state.
ConnectFailed ==
    /\ client = None
    /\ why \in {"ConnectNotFound", "BleakError", "ConnectTimeout", "OSError"}

\* C11: a session whose connect() brought a handle up has, when it is over
\* (manage returned, or an exception left it), issued a device stop and then
\* a disconnect, in that order, whatever the path out: normal completion, a
\* failed initialisation handshake, an error in the command, or a stop that
\* raised.
C11_CleanupAlwaysRuns ==
    (pc \in {"returned", "crashed"} /\ SessionConnects /\ ~ConnectFailed)
        => cleanupOps = <<"stop", "disconnect">>

\* How a session can end: by an exception manage() catches, or by reaching
\* the end of the scan, of the forwarding, or of the command.
FailureEnds ==
    {"ConnectNotFound", "ConnectTimeout", "BleakError", "InitialiseError",
     "OSError", "Exception"}
SuccessEnds == {"scan", "forward", "refused", "ok"}

\* C12: the status manage() returns is 1 exactly when the session ended by
\* a connect failure, a transport error or another uncaught exception, and 0
\* when it ended by completing the scan, the forwarding or the command; a
\* process that exits has run one session without `forever` and exits with
\* that session's status.
C12_StatusReflectsOutcome ==
    /\ pc \in {"returned", "exited"} =>
          /\ why \in FailureEnds \cup SuccessEnds
          /\ return_code = 1 <=> why \in FailureEnds
          /\ return_code = 0 <=> why \in SuccessEnds
    /\ pc = "exited" => sessions = 1 /\ ~config.forever

C12_Witness ==
    /\ pc = "exited"
    /\ why = "OSError"
    /\ client # None
    /\ return_code = 1

\* C13: in every reachable state at most one connection handle is in the
\* connected state, over sessions, restarts in `forever` mode, unexpected
\* drops, reconnect tasks and cleanup.
C13_AtMostOneLiveConnection == Cardinality(connected) <= 1

\* The handler of inbound connection r is inside run_command.
InRun(r) == run[r].pc \in {"read1", "watch", "move", "read2"}

\* C14: the forwarding server serves one inbound connection's
\* command to completion before it processes the next, so that two runs
\* started by forwarded requests are never in progress at once.
C14_OneRunAtATime ==
    \A r1, r2 \in Requests : InRun(r1) /\ InRun(r2) => r1 = r2

\* C15: the message-bridge server replaces the log sink of config only for
\* the time of a request: once the handler of request r has closed its
\* session, config.log is no longer the sink that request installed.
C15_LogSinkRestored ==
    \A r \in Requests :
        (server = "ws" /\ run[r].pc = "closed") => config.log # r

\* A step in which a background reconnect attempt ends without bringing its
\* handle up.
ReconnectFails == Len(tasks') = Len(tasks) - 1 /\ connected' = connected

\* C16: every reconnect attempt that fails schedules another attempt, so a
\* step in which an attempt fails leaves an attempt pending.
C16_FailedReconnectRetries ==
    [][ReconnectFails => tasks' # <<>>]_vars

\* the names of the device operations runner r has completed, in order
OpNames(r) == [i \in 1 .. Len(run[r].ops) |-> run[r].ops[i].op]

\* C17: the first device operation of every run is a height read; a run of
\* a command other than move_to issues no move-to-target; a move_to run
\* whose resolved target differs from the height first read has, when it
\* returns, issued exactly a read (the initial height), a move-to-target
\* with the resolved target, and a read, in that order, and until then a
\* prefix of these.
C17_DeviceOperationOrder ==
    \A r \in Runners :
        LET rec == run[r]
            moves == rec.command = "move_to" /\ rec.target # NoHeight
                        /\ rec.target # rec.initial
        IN  /\ rec.ops # <<>> =>
                  rec.ops[1] = Op("read", rec.initial)
            /\ rec.command # "move_to" =>
                  \A i \in 1 .. Len(rec.ops) : rec.ops[i].op # "move_to"
            /\ moves =>
                  /\ \E n \in 1 .. 3 :
                        OpNames(r) = SubSeq(<<"read", "move_to", "read">>, 1, n)
                  /\ Len(rec.ops) >= 2 => rec.ops[2] = Op("move_to", rec.target)
                  /\ rec.pc = "returned" => Len(rec.ops) = 3

C17_Witness ==
    /\ run[0].pc = "returned"
    /\ run[0].command = "move_to"
    /\ run[0].target # run[0].initial
    /\ OpNames(0) = <<"read", "move_to", "read">>

\* The run of runner r has resolved its target, or has ended in resolving it.
Resolved(r) ==
    /\ run[r].command = "move_to"
    /\ run[r].pc \in {"move", "read2", "returned", "raised"}

\* C18: for every target string, a name of a favourite resolves to the
\* favourite's height, also when the name is itself numeric ("70" is bound
\* to 110); a string that is no favourite resolves to its literal value when
\* it is numeric; any other string ends the run by the invalid-target
\* report, with no target and no exception.
C18_TargetResolution ==
    \A r \in Runners :
        Resolved(r) =>
            LET t == run[r].move_to
            IN  /\ t \in {"standing", "70"} => run[r].target = HeightToInternal(110)
                /\ t = "110" => run[r].target = HeightToInternal(110)
                /\ t = "62" => run[r].target = HeightToInternal(62)
                /\ t \in {"half", "abc", "None"} =>
                      /\ run[r].target = NoHeight
                      /\ run[r].pc = "returned"

\* C19: the run of a forwarded request branches on the command and the
\* target of the descriptor it was started with: when the first read of the
\* run of request r completes, config.command and config.move_to are those
\* of r's own descriptor, also when another request was applied meanwhile.
C19_RunUsesOwnDescriptor ==
    [][\A r \in Requests :
          (run[r].pc = "read1" /\ run'[r].pc # "read1" /\ client \in connected)
              => \A k \in DOMAIN run[r].desc[1] \cap {"command", "move_to"} :
                    config[k] = run[r].desc[1][k]]_vars

\* The process has ended: main() called os._exit, or an exception left
\* main() and asyncio.run.
Terminated == pc \in {"exited", "crashed"}

\* C20: started without `forever` and with command none or move_to, and with
\* every awaited device and transport call returning or raising, the process
\* terminates: the single session comes to its end, after its cleanup when
\* it had connected, also while a background reconnect task is pending.
C20_Terminates ==
    (~config.forever /\ ~config.forward /\ config.command \in {"none", "move_to"})
        ~> Terminated

\* the process has exited after a move_to session that cleaned up, with a
\* reconnect task still pending
C20_Witness ==
    /\ pc = "exited"
    /\ ~config.forever
    /\ config.command = "move_to"
    /\ cleanupOps = <<"stop", "disconnect">>
    /\ tasks # <<>>

====
